---- MODULE Spec2Model ----
(***************************************************************************)
(* Pagers of google.cloud.compute_v1.services.global_network_endpoint_     *)
(* groups (pagers.py): ListPager and ListNetworkEndpointsPager.  The two   *)
(* classes differ only in the message types they carry; their __init__,    *)
(* __getattr__, pages, __iter__ and __repr__ have the same bodies, so one  *)
(* set of operators models both.                                           *)
(*                                                                         *)
(* The pager object is the record [request, response, metadata]           *)
(* (self._request, self._response, self._metadata).  self._method is the   *)
(* injected callable: an external collaborator whose outcome on each       *)
(* invocation (a response message, or a raised error) is an input.  Every  *)
(* invocation is recorded in the log `calls`, as a mock callable would.    *)
(* A generator object (one `pager.pages`, or one `iter(pager)`) is a       *)
(* record holding its position and, for stating properties, what it has    *)
(* delivered to its consumer so far.                                       *)
(***************************************************************************)
EXTENDS Integers, Sequences, FiniteSets, TLC

\* Longest item sequence of one response message.
MaxItems == 2
\* Invocations of the callable after which the exploration stops.
MaxCalls == 2

\* Page tokens are opaque strings; the empty string is falsy in Python.
\* The server names the page after message n by a token of its own, or
\* ends the listing with the empty token.
EmptyToken == ""
TokenAfter(n) == "t" \o ToString(n + 1)
TokenChoices(n) == {TokenAfter(n), EmptyToken}
\* exceptions the callable may raise
Errors == {"Unavailable", "Forbidden"}
\* metadata: a sequence of (key, value) pairs; () is the default
MetadataChoices == {<<>>, << <<"k", "v">> >>}
\* the generator objects a program obtains from one pager
Gens == {1, 2}

VARIABLES
    callerRequest,  \* the request object the caller passed to __init__
    given,          \* the arguments of __init__, as they were passed
    request,        \* self._request
    response,       \* self._response
    metadata,       \* self._metadata
    calls,          \* log of the invocations of self._method
    gen,            \* the generator objects
    observed        \* what the latest attribute read or repr() returned

vars == <<callerRequest, given, request, response, metadata, calls, gen, observed>>

----------------------------------------------------------------------------
\* Messages

\* A response message: the server stamps it with `id`; its items are
\* distinct values, so that a dropped, repeated or moved item shows.
Page(id, n, tok) ==
    [id |-> id, items |-> [i \in 1..n |-> <<id, i>>], next_page_token |-> tok]

\* placeholders for "no message", "no item", "no error"
NoPage == Page(-1, 0, EmptyToken)
NoItem == <<-1, 0>>
NoError == ""

\* What one invocation of the callable does: return a message or raise.
Returns(r) == [error |-> NoError, response |-> r]
Raises(e) == [error |-> e, response |-> NoPage]

\* The possible outcomes of the n-th invocation.
Outcomes(n) ==
    {Returns(Page(n, k, t)) : k \in 0..MaxItems, t \in TokenChoices(n)}
        \cup {Raises(e) : e \in Errors}

\* What one next() on a generator gives its caller.
YieldPage(r) == [kind |-> "yield", page |-> r, item |-> NoItem, error |-> NoError]
YieldItem(x) == [kind |-> "yield", page |-> NoPage, item |-> x, error |-> NoError]
StopIteration == [kind |-> "stop", page |-> NoPage, item |-> NoItem, error |-> NoError]
Raise(e) == [kind |-> "raise", page |-> NoPage, item |-> NoItem, error |-> e]
NoResult == [kind |-> "none", page |-> NoPage, item |-> NoItem, error |-> NoError]

NoArgs == [request |-> [page_token |-> EmptyToken, filter |-> ""], metadata |-> <<>>]

----------------------------------------------------------------------------
\* The pager

\* __init__: the request is copied into a message of the pager's own, the
\* response and the metadata are kept as given.
PagerInit(req, resp, md) ==
    [request |-> [page_token |-> req.page_token, filter |-> req.filter],
     response |-> resp,
     metadata |-> md]

\* __init__, line 69: self._request is a message of the pager's own, built
\* from the caller's request by the message constructor, and not the
\* caller's object.
OwnRequestBug == FALSE
OwnRequest == TRUE

\* __getattr__: forwarded to the held response.
GetAttr(self, name) == self.response[name]

\* __repr__: class name and the repr of the held response.
Repr(self) == <<"ListPager", self.response>>

\* pages, line 78: the first next() yields the response the pager holds.
PagesFirstBug(self) == YieldPage(NoPage)
PagesFirst(self) == YieldPage(self.response)

\* pages, line 79: the loop goes on while the held response's token is truthy.
PagesMoreBug(self) ==
    self.response.next_page_token # EmptyToken /\ Len(self.response.items) > 0
PagesMoreAlways(self) == TRUE
PagesMore(self) == self.response.next_page_token # EmptyToken

\* pages, line 80: the held response's token is written into the held request.
PagesSetTokenBug(self) == self
PagesSetToken(self) ==
    [self EXCEPT !.request.page_token = self.response.next_page_token]

\* pages, line 81: the arguments of self._method(self._request,
\* metadata=self._metadata).
CallArgsBug(self) == [request |-> self.request, metadata |-> <<>>]
CallArgs(self) == [request |-> self.request, metadata |-> self.metadata]

\* pages, line 81: what the callable returned becomes the held response.
PagesStoreBug(self, r) == self
PagesStore(self, r) == [self EXCEPT !.response = r]

\* pages, line 82: the response yielded after a fetch, `before` it was
\* stored and `after`.
PagesFetchedBug(before, after) == YieldPage(before.response)
PagesFetched(before, after) == YieldPage(after.response)

\* pages, line 81: an exception of the callable is not caught; it leaves
\* the generator as it is.
PagesRaisedBug(e) == StopIteration
PagesRaised(e) == Raise(e)

\* A faulty variant of the generator of `pages`: it writes the token into
\* the held request before its first yield.
PagesNextEager(self, pc, out) ==
    IF pc = "start" THEN
        [self |-> PagesSetToken(self), pc |-> "yielded", called |-> FALSE,
         args |-> NoArgs, res |-> PagesFirst(self)]
    ELSE IF pc = "yielded" THEN
        IF PagesMore(self) THEN
            LET s1 == PagesSetToken(self)
            IN  IF out.error # NoError THEN
                    [self |-> s1, pc |-> "raised", called |-> TRUE,
                     args |-> CallArgs(s1), res |-> PagesRaised(out.error)]
                ELSE
                    LET s2 == PagesStore(s1, out.response)
                    IN  [self |-> s2, pc |-> "yielded", called |-> TRUE,
                         args |-> CallArgs(s1), res |-> PagesFetched(s1, s2)]
        ELSE
            [self |-> self, pc |-> "done", called |-> FALSE, args |-> NoArgs,
             res |-> StopIteration]
    ELSE
        [self |-> self, pc |-> pc, called |-> FALSE, args |-> NoArgs,
         res |-> StopIteration]

\* One next() on the generator of `pages`, at position pc, when the callable
\* (if it is invoked) does `out`:
\*   "start"   -> runs to line 78 and yields the held response;
\*   "yielded" -> resumes after a yield (line 78 or 82): tests the held
\*                response's token, and either falls off the end or copies the
\*                token into the held request, invokes the callable, stores
\*                and yields what it returns; an exception of the callable
\*                leaves the generator through line 81 and ends it;
\*   "done", "raised" -> a finished generator only raises StopIteration.
PagesNext(self, pc, out) ==
    IF pc = "start" THEN
        [self |-> self, pc |-> "yielded", called |-> FALSE, args |-> NoArgs,
         res |-> PagesFirst(self)]
    ELSE IF pc = "yielded" THEN
        IF PagesMore(self) THEN
            LET s1 == PagesSetToken(self)
            IN  IF out.error # NoError THEN
                    [self |-> s1, pc |-> "raised", called |-> TRUE,
                     args |-> CallArgs(s1), res |-> PagesRaised(out.error)]
                ELSE
                    LET s2 == PagesStore(s1, out.response)
                    IN  [self |-> s2, pc |-> "yielded", called |-> TRUE,
                         args |-> CallArgs(s1), res |-> PagesFetched(s1, s2)]
        ELSE
            [self |-> self, pc |-> "done", called |-> FALSE, args |-> NoArgs,
             res |-> StopIteration]
    ELSE
        [self |-> self, pc |-> pc, called |-> FALSE, args |-> NoArgs,
         res |-> StopIteration]

\* The same next(), over the pager and the call log: every outcome the
\* callable may have when it is invoked.
PagesPull(w, g, pc) ==
    LET probe == PagesNext(w.self, pc, Returns(NoPage))
    IN  IF ~probe.called THEN
            {[w |-> [w EXCEPT !.self = probe.self],
              pc |-> probe.pc, res |-> probe.res]}
        ELSE IF Len(w.calls) >= MaxCalls THEN {}
        ELSE
            {LET r == PagesNext(w.self, pc, out)
             IN  [w |-> [self |-> r.self,
                         calls |-> Append(w.calls,
                                     [request |-> r.args.request,
                                      metadata |-> r.args.metadata,
                                      by |-> g,
                                      outcome |-> out])],
                  pc |-> r.pc, res |-> r.res]
             : out \in Outcomes(Len(w.calls) + 1)}

\* __iter__, `yield from page.items`: whether the page in hand has an item
\* left.
HasItemBug(it) == it.idx + 1 < Len(it.page.items)
HasItem(it) == it.idx < Len(it.page.items)

IterYield(it) ==
    [it EXCEPT !.idx = it.idx + 1,
               !.itemsOut = Append(it.itemsOut, it.page.items[it.idx + 1]),
               !.last = YieldItem(it.page.items[it.idx + 1])]

\* __iter__, `for page in self.pages`: what the loop does with the result r
\* of next() on its pages generator, now at position pc.
IterAcceptBug(it, pc, r) ==
    IF r.kind = "yield" THEN
        [it EXCEPT !.pc = pc, !.page = r.page,
                   !.idx = IF Len(r.page.items) > 0 THEN 1 ELSE 0,
                   !.pagesOut = Append(it.pagesOut, r.page)]
    ELSE
        [it EXCEPT !.pc = pc, !.last = r]
IterAccept(it, pc, r) ==
    IF r.kind = "yield" THEN
        [it EXCEPT !.pc = pc, !.page = r.page, !.idx = 0,
                   !.pagesOut = Append(it.pagesOut, r.page)]
    ELSE
        [it EXCEPT !.pc = pc, !.last = r]

\* One next() on the generator of __iter__: items of the page in hand
\* first, then page after page until one has an item, the pages end or the
\* callable raises.
RECURSIVE IterPull(_, _, _)
IterPull(w, g, it) ==
    IF HasItem(it) THEN {[w |-> w, it |-> IterYield(it)]}
    ELSE UNION {
        LET it2 == IterAccept(it, p.pc, p.res)
        IN  IF p.res.kind = "yield" THEN IterPull(p.w, g, it2)
            ELSE {[w |-> p.w, it |-> it2]}
        : p \in PagesPull(w, g, it.pc)}

----------------------------------------------------------------------------
\* State machine

World == [self |-> [request |-> request, response |-> response,
                    metadata |-> metadata],
          calls |-> calls]

NoGen == [kind |-> "none", pc |-> "start", page |-> NoPage, idx |-> 0,
          pagesOut |-> <<>>, itemsOut |-> <<>>, last |-> NoResult]

NoObservation == [op |-> "none", name |-> "", value |-> ""]

AttrNames == {"items", "next_page_token"}

Init ==
    /\ \E tok \in {EmptyToken, "t0"} :
           callerRequest = [page_token |-> tok, filter |-> "f"]
    /\ \E k \in 0..MaxItems, t \in TokenChoices(0), md \in MetadataChoices :
           given = [request |-> callerRequest,
                    response |-> Page(0, k, t), metadata |-> md]
    /\ LET self == PagerInit(callerRequest, given.response, given.metadata)
       IN  /\ request = self.request
           /\ response = self.response
           /\ metadata = self.metadata
    /\ calls = <<>>
    /\ gen = [g \in Gens |-> NoGen]
    /\ observed = NoObservation

SetWorld(w) ==
    /\ callerRequest' = IF OwnRequest THEN callerRequest ELSE w.self.request
    /\ request' = w.self.request
    /\ response' = w.self.response
    /\ metadata' = w.self.metadata
    /\ calls' = w.calls

\* `pager.pages`: a new generator object; nothing of its body runs yet.
NewPages(g) ==
    /\ gen[g].kind = "none"
    /\ \A h \in Gens : h < g => gen[h].kind # "none"
    /\ gen' = [gen EXCEPT ![g].kind = "pages"]
    /\ observed' = NoObservation
    /\ UNCHANGED <<callerRequest, given, request, response, metadata, calls>>

\* `iter(pager)`: a new generator object of __iter__.
NewIter(g) ==
    /\ gen[g].kind = "none"
    /\ \A h \in Gens : h < g => gen[h].kind # "none"
    /\ gen' = [gen EXCEPT ![g].kind = "items"]
    /\ observed' = NoObservation
    /\ UNCHANGED <<callerRequest, given, request, response, metadata, calls>>

\* The program uses its generators one after another: it may abandon one
\* at any point, and does not return to it once it has pulled from a later
\* one.
InUse(g) == \A h \in Gens : h > g => gen[h].pc = "start"

\* next() on a generator of `pages`.
NextPage(g) ==
    /\ gen[g].kind = "pages"
    /\ InUse(g)
    /\ \E p \in PagesPull(World, g, gen[g].pc) :
           /\ SetWorld(p.w)
           /\ gen' = [gen EXCEPT ![g].pc = p.pc,
                                 ![g].last = p.res,
                                 ![g].pagesOut =
                                     IF p.res.kind = "yield"
                                     THEN Append(@, p.res.page) ELSE @]
    /\ observed' = NoObservation
    /\ UNCHANGED given

\* next() on a generator of __iter__.
NextItem(g) ==
    /\ gen[g].kind = "items"
    /\ InUse(g)
    /\ \E p \in IterPull(World, g, gen[g]) :
           /\ SetWorld(p.w)
           /\ gen' = [gen EXCEPT ![g] = p.it]
    /\ observed' = NoObservation
    /\ UNCHANGED given

\* `pager.<name>` for a name the pager itself does not define.
ReadAttr ==
    /\ \E name \in AttrNames :
           observed' = [op |-> "getattr", name |-> name,
                        value |-> GetAttr(World.self, name)]
    /\ UNCHANGED <<callerRequest, given, request, response, metadata, calls, gen>>

\* `repr(pager)`.
ReadRepr ==
    /\ observed' = [op |-> "repr", name |-> "", value |-> Repr(World.self)]
    /\ UNCHANGED <<callerRequest, given, request, response, metadata, calls, gen>>

Next ==
    \/ \E g \in Gens : NewPages(g)
    \/ \E g \in Gens : NewIter(g)
    \/ \E g \in Gens : NextPage(g)
    \/ \E g \in Gens : NextItem(g)
    \/ ReadAttr
    \/ ReadRepr

Spec == Init /\ [][Next]_vars

\* The same program with a consumer that keeps pulling: a generator that
\* can be advanced is advanced in the end.
FairSpec ==
    Spec /\ \A g \in Gens : WF_vars(NextPage(g)) /\ WF_vars(NextItem(g))

\* A program that holds two page sequences of one pager and pulls from
\* either in any order, one next() at a time.
PullPage(g) ==
    /\ gen[g].kind = "pages"
    /\ \E p \in PagesPull(World, g, gen[g].pc) :
           /\ SetWorld(p.w)
           /\ gen' = [gen EXCEPT ![g].pc = p.pc,
                                 ![g].last = p.res,
                                 ![g].pagesOut =
                                     IF p.res.kind = "yield"
                                     THEN Append(@, p.res.page) ELSE @]
    /\ observed' = NoObservation
    /\ UNCHANGED given

NextShared ==
    \/ \E g \in Gens : NewPages(g)
    \/ \E g \in Gens : PullPage(g)

SpecShared == Init /\ [][NextShared]_vars

----------------------------------------------------------------------------
\* What the call log and the generators' deliveries say

Succeeded(c) == c.outcome.error = NoError

\* the responses the callable returned, in the order it returned them
Received ==
    LET ok == SelectSeq(calls, Succeeded)
    IN  [i \in 1..Len(ok) |-> ok[i].outcome.response]

\* the chain of pages: the initial response, then the responses received
Chain == <<given.response>> \o Received

\* the most recently received response
Latest == Chain[Len(Chain)]

RECURSIVE Flatten(_)
Flatten(pages) ==
    IF pages = <<>> THEN <<>>
    ELSE Head(pages).items \o Flatten(Tail(pages))

\* the invocations generator g made
CallsBy(g) == SelectSeq(calls, LAMBDA c : c.by = g)

\* generator g is the only one that has run: an iteration over a fresh pager
Alone(g) == g = 1 /\ \A h \in Gens : h # g => gen[h].pc = "start"

\* generator g has run to its end
Complete(g) == gen[g].kind # "none" /\ gen[g].pc = "done"

\* the chain ends at its last page, and not before
EndsAtLast(ch) ==
    /\ ch[Len(ch)].next_page_token = EmptyToken
    /\ \A i \in 1..(Len(ch) - 1) : ch[i].next_page_token # EmptyToken

----------------------------------------------------------------------------
\* C1: one complete iteration over a fresh pager yields exactly the
\* concatenation of the item sequences of the chain's pages, in page order
\* and in within-page order: nothing dropped, repeated or moved.
C1_ItemsAreConcatenation ==
    \A g \in Gens :
        (gen[g].kind = "items" /\ Alone(g) /\ Complete(g)) =>
            /\ EndsAtLast(Chain)
            /\ gen[g].itemsOut = Flatten(Chain)

\* a complete iteration over three pages, the middle one empty
C1_Witness ==
    \E g \in Gens :
        /\ gen[g].kind = "items" /\ Alone(g) /\ Complete(g)
        /\ Len(Chain) = 3
        /\ Len(Chain[1].items) = 2 /\ Len(Chain[2].items) = 0
        /\ Len(Chain[3].items) = 2
        /\ Len(gen[g].itemsOut) = 4

\* C2: one complete iteration over a fresh pager with a chain of N pages
\* invokes the callable exactly N-1 times (never when the initial response
\* has an empty token, whatever its items), and the k-th invocation carries
\* the continuation token of the response received just before it.
C2_CallsAndTokens ==
    \A g \in Gens :
        (Alone(g) /\ Complete(g)) =>
            /\ EndsAtLast(Chain)
            /\ Len(calls) = Len(Chain) - 1
            /\ \A k \in 1..Len(calls) :
                   calls[k].request.page_token = Chain[k].next_page_token
            /\ (given.response.next_page_token = EmptyToken => calls = <<>>)

\* a complete iteration over three pages: two invocations
C2_Witness ==
    \E g \in Gens :
        /\ Alone(g) /\ Complete(g)
        /\ Len(Chain) = 3 /\ Len(calls) = 2
        /\ calls[2].request.page_token = Chain[2].next_page_token
        /\ calls[2].request.page_token # calls[1].request.page_token

\* C3 as stated: every page sequence obtained from the pager, at any point
\* of the pager's life, yields the initially supplied response first.
C3_FirstIsInitial ==
    \A g \in Gens :
        Len(gen[g].pagesOut) > 0 => gen[g].pagesOut[1] = given.response

\* C3 as amended: a page sequence yields first the response the pager holds
\* when the sequence is first pulled; that is the initially supplied
\* response as long as no earlier sequence has fetched a page.
C3_FirstIsHeld ==
    [][\A g \in Gens :
          (gen[g].pc = "start" /\ gen'[g].pc # "start") =>
              /\ Len(gen'[g].pagesOut) > 0
              /\ gen'[g].pagesOut[1] = response
              /\ (Received = <<>> => gen'[g].pagesOut[1] = given.response)]_vars

\* a second sequence whose first page is a fetched page, not the initial one
C3_Witness ==
    /\ gen[1].pc # "start"
    /\ gen[1].pagesOut[1] = given.response
    /\ gen[2].pc # "start"
    /\ gen[2].pagesOut[1] # given.response
    /\ gen[2].pagesOut[1] = Received[1]

\* C4: an attribute of the response read through the pager has the value
\* held by the most recently received response: the initial response
\* before any fetch, the response of the latest successful invocation after.
C4_AttrOfLatest ==
    /\ \A name \in AttrNames : GetAttr(World.self, name) = Latest[name]
    /\ observed.op = "getattr" => observed.value = Latest[observed.name]

\* an attribute read after two fetches, giving the third page's value
C4_Witness ==
    /\ observed.op = "getattr" /\ observed.name = "items"
    /\ Len(Received) = 2
    /\ observed.value = Received[2].items
    /\ observed.value # Received[1].items
    /\ observed.value # given.response.items

\* C5: when the callable raises during a pull, the pull raises that same
\* error, yields no page or item for the failed fetch, and makes no further
\* invocation.
C5_FailurePropagates ==
    [][\A i \in (Len(calls) + 1)..Len(calls') :
          ~Succeeded(calls'[i]) =>
              LET g == calls'[i].by
                  fetched == i - Len(calls) - 1
                  first == IF gen[g].pc = "start" THEN 1 ELSE 0
              IN  /\ i = Len(calls')
                  /\ gen'[g].last = Raise(calls'[i].outcome.error)
                  /\ gen'[g].itemsOut = gen[g].itemsOut
                  /\ Len(gen'[g].pagesOut) =
                         Len(gen[g].pagesOut) + first + fetched]_vars

\* an item pull that fetched one (empty) page and then failed
C5_Witness ==
    \E g \in Gens :
        /\ gen[g].kind = "items"
        /\ gen[g].last.kind = "raise"
        /\ Len(calls) = 2
        /\ Succeeded(calls[1]) /\ ~Succeeded(calls[2])
        /\ gen[g].last.error = calls[2].outcome.error
        /\ Len(gen[g].pagesOut) = 2

\* the larger of two numbers
Max(a, b) == IF a >= b THEN a ELSE b

\* generator g made a move in this step
Pulled(g) == gen'[g] # gen[g]

\* Laziness: a pull that finds an item left in the page in hand invokes
\* nothing, and whoever invokes has used up what it was given: an item
\* iterator the items of its page, a page sequence its yielded page.
LazyStep ==
    /\ \A g \in Gens :
           (gen[g].kind = "items" /\ gen[g].idx < Len(gen[g].page.items)
               /\ Pulled(g)) => calls' = calls
    /\ \A i \in (Len(calls) + 1)..Len(calls') :
           LET g == calls'[i].by
           IN  /\ Pulled(g)
               /\ gen[g].kind = "items" =>
                      gen[g].idx = Len(gen[g].page.items)
               /\ gen[g].kind = "pages" => gen[g].pc = "yielded"

\* C6 as stated: at every point of an iteration over a fresh pager the
\* invocations made so far number the pages yielded so far minus one (zero
\* before and after the first page), and fetching is lazy.
C6_CallsArePagesMinusOne ==
    /\ [](\A g \in Gens :
             Alone(g) => Len(calls) = Max(Len(gen[g].pagesOut) - 1, 0))
    /\ [][LazyStep]_vars

\* C6 as amended: the invocations that returned a response number the pages
\* yielded minus one; an invocation that raised is one more invocation and
\* no page, and it is the last of the iteration.  Fetching is lazy.
C6_ReturnedArePagesMinusOne ==
    /\ [](\A g \in Gens :
             Alone(g) =>
                 /\ Len(Received) = Max(Len(gen[g].pagesOut) - 1, 0)
                 /\ Len(calls) - Len(Received) =
                        IF gen[g].pc = "raised" THEN 1 ELSE 0)
    /\ [][LazyStep]_vars

\* an item iterator with the three pages of its chain received by two
\* invocations, and an item of the third page still to pull
C6_Witness ==
    \E g \in Gens :
        /\ Alone(g) /\ gen[g].kind = "items"
        /\ Len(gen[g].pagesOut) = 3 /\ Len(calls) = 2
        /\ gen[g].idx = 1 /\ Len(gen[g].page.items) = 2

\* C7: once a response with an empty token is held, the callable is never
\* invoked again; the next pull of a page sequence that has yielded it ends
\* the sequence, and that pull is always possible; an item iterator yields
\* the items left in its page, one a pull, and then ends.  So a consumer
\* that keeps pulling from a generator sees its end (unless the program
\* leaves that generator for a later one).
C7_EndsAtEmptyToken ==
    /\ \A g \in Gens :
           (response.next_page_token = EmptyToken /\ gen[g].kind # "none")
               ~> (gen[g].pc \in {"done", "raised"} \/ ~InUse(g))
    /\ [](\A g \in Gens :
             (response.next_page_token = EmptyToken /\ InUse(g)
                 /\ gen[g].pc = "yielded") =>
                 /\ gen[g].kind = "pages" => ENABLED NextPage(g)
                 /\ gen[g].kind = "items" => ENABLED NextItem(g))
    /\ [][response.next_page_token = EmptyToken =>
            /\ calls' = calls
            /\ response' = response
            /\ \A g \in Gens :
                   (gen[g].pc = "yielded" /\ Pulled(g)) =>
                       IF gen[g].idx < Len(gen[g].page.items)
                       THEN /\ gen'[g].idx = gen[g].idx + 1
                            /\ gen'[g].last.kind = "yield"
                       ELSE /\ gen'[g].pc = "done"
                            /\ gen'[g].last = StopIteration
                            /\ gen'[g].pagesOut = gen[g].pagesOut
                            /\ gen'[g].itemsOut = gen[g].itemsOut]_vars

\* a page sequence that ended after the third page of its chain
C7_Witness ==
    \E g \in Gens :
        /\ gen[g].kind = "pages" /\ gen[g].pc = "done"
        /\ gen[g].last = StopIteration
        /\ Len(gen[g].pagesOut) = 3 /\ Len(calls) = 2
        /\ gen[g].pagesOut[3].next_page_token = EmptyToken

\* C8: while the responses have non-empty tokens the page sequence does not
\* end: each pull of the next page invokes the callable exactly once, with
\* the held token, and yields what it returns; a sequence ends only at an
\* empty token, and the pager has no page count at which it stops.
C8_NoPageLimit ==
    /\ [](\A g \in Gens :
             /\ gen[g].pc = "done" => response.next_page_token = EmptyToken
             /\ (gen[g].kind = "pages" /\ gen[g].pc = "yielded" /\ InUse(g)
                    /\ response.next_page_token # EmptyToken
                    /\ Len(calls) < MaxCalls) => ENABLED NextPage(g))
    /\ [][\A g \in Gens :
            (gen[g].kind = "pages" /\ gen[g].pc = "yielded" /\ Pulled(g)
                /\ response.next_page_token # EmptyToken) =>
                /\ Len(calls') = Len(calls) + 1
                /\ calls'[Len(calls')].request.page_token =
                       response.next_page_token
                /\ Succeeded(calls'[Len(calls')]) =>
                       /\ gen'[g].pc = "yielded"
                       /\ gen'[g].last =
                              YieldPage(calls'[Len(calls')].outcome.response)
                       /\ gen'[g].pagesOut =
                              Append(gen[g].pagesOut,
                                     calls'[Len(calls')].outcome.response)]_vars

\* a page sequence that has yielded a page for every invocation the
\* exploration allows, the last with a token and no items, and has not ended
C8_Witness ==
    \E g \in Gens :
        /\ gen[g].kind = "pages" /\ gen[g].pc = "yielded"
        /\ Len(calls) = MaxCalls
        /\ Len(gen[g].pagesOut) = MaxCalls + 1
        /\ response.next_page_token # EmptyToken
        /\ Len(response.items) = 0

\* C9: a page sequence is forward-only: it yields the response held when it
\* started and then the responses of its own fetches, in the order of the
\* chain and each once, and each invocation it makes carries the token of
\* the page it yielded last.
C9_ForwardOnly ==
    \A g \in Gens :
        LET out == gen[g].pagesOut
            mine == CallsBy(g)
            ok == SelectSeq(mine, Succeeded)
        IN  IF out = <<>> THEN mine = <<>>
            ELSE /\ \E i \in 1..Len(Chain) : out[1] = Chain[i]
                 /\ g = 1 => out[1] = given.response
                 /\ Tail(out) = [k \in 1..Len(ok) |-> ok[k].outcome.response]
                 /\ \A i, j \in 1..Len(out) : i < j => out[i].id < out[j].id
                 /\ Len(mine) <= Len(out)
                 /\ \A k \in 1..Len(mine) :
                        mine[k].request.page_token = out[k].next_page_token

\* a second page sequence that started at the second page and fetched the
\* third
C9_Witness ==
    /\ Len(Chain) = 3
    /\ Len(gen[1].pagesOut) = 2
    /\ gen[2].kind = "pages"
    /\ gen[2].pagesOut = <<Chain[2], Chain[3]>>
    /\ Len(CallsBy(2)) = 1 /\ Len(CallsBy(1)) = 1

\* C10: every invocation carries the metadata given at construction; the
\* pager's metadata never changes.
C10_MetadataUnchanged ==
    /\ metadata = given.metadata
    /\ \A i \in 1..Len(calls) : calls[i].metadata = given.metadata

\* two invocations, both with the non-default metadata given
C10_Witness ==
    /\ Len(calls) = 2
    /\ given.metadata # <<>>
    /\ calls[1].metadata = given.metadata
    /\ calls[2].metadata = given.metadata

\* C11: the held request and the held response change only in a step that
\* advances to the next page (one that invokes the callable): reading a
\* forwarded attribute, producing the repr, yielding the first page and
\* pulling an item that lies within the page in hand leave both unchanged.
C11_ChangesOnlyOnAdvance ==
    [][/\ (request' # request \/ response' # response) =>
              Len(calls') > Len(calls)
       /\ (observed'.op # "none" /\ observed' # observed) =>
              (request' = request /\ response' = response)
       /\ \A g \in Gens :
              (gen[g].kind = "pages" /\ gen[g].pc = "start" /\ Pulled(g)) =>
                  (request' = request /\ response' = response)
       /\ \A g \in Gens :
              (gen[g].kind = "items" /\ gen[g].idx < Len(gen[g].page.items)
                  /\ Pulled(g)) =>
                  (request' = request /\ response' = response)]_vars

\* the repr read after the second item of a fetched page was pulled: the
\* pager still holds that page and the token that fetched it
C11_Witness ==
    /\ observed.op = "repr"
    /\ Len(calls) = 1 /\ Len(Received) = 1
    /\ gen[1].kind = "items" /\ gen[1].idx = 2
    /\ gen[1].page = Received[1]
    /\ response = Received[1]
    /\ request.page_token = given.response.next_page_token
    /\ observed.value = Repr(World.self)

C13_SecondStartsAtHeld ==
    (Complete(1) /\ gen[2].pc # "start") =>
        /\ EndsAtLast(Chain)
        /\ Len(calls) = Len(CallsBy(1))
        /\ gen[2].pagesOut = <<Chain[Len(Chain)]>>
        /\ (gen[2].kind = "items" /\ Complete(2)) =>
               gen[2].itemsOut = Chain[Len(Chain)].items

\* a complete iteration over three pages, then a second complete one that
\* yielded the two items of the third page
C13_Witness ==
    /\ Complete(1) /\ gen[1].kind = "items"
    /\ Len(Chain) = 3 /\ Len(gen[1].itemsOut) = 5
    /\ gen[2].kind = "items" /\ Complete(2)
    /\ Len(gen[2].itemsOut) = 2
    /\ gen[2].itemsOut = Chain[3].items
    /\ Len(calls) = 2

\* the latest invocation raised
LastFailed == calls # <<>> /\ ~Succeeded(calls[Len(calls)])

\* C14: when an invocation raises, the pager still holds the response it
\* held before that invocation (attribute reads and the repr show that
\* page) and its request already carries that response's token; an
\* iteration started afterwards is given the held page again and its first
\* invocation carries that same token.
C14_StateAfterFailure ==
    /\ [](LastFailed =>
             LET f == calls[Len(calls)].by
             IN  /\ response = Latest
                 /\ request.page_token = response.next_page_token
                 /\ calls[Len(calls)].request.page_token =
                        response.next_page_token
                 /\ gen[f].pagesOut[Len(gen[f].pagesOut)] = response
                 /\ \A name \in AttrNames :
                        GetAttr(World.self, name) = Latest[name]
                 /\ Repr(World.self) = <<"ListPager", Latest>>
                 /\ observed.op = "getattr" =>
                        observed.value = Latest[observed.name]
                 /\ observed.op = "repr" =>
                        observed.value = <<"ListPager", Latest>>
                 /\ \A g \in Gens :
                        (gen[g].kind = "pages" /\ gen[g].pc = "yielded"
                            /\ InUse(g) /\ Len(calls) < MaxCalls) =>
                            ENABLED NextPage(g))
    /\ [][\A i \in (Len(calls) + 1)..Len(calls') :
            ~Succeeded(calls'[i]) =>
                LET before == IF i = Len(calls) + 1 THEN response
                              ELSE calls'[i - 1].outcome.response
                IN  /\ response' = before
                    /\ request'.page_token = before.next_page_token]_vars
    /\ [][LastFailed =>
            /\ \A g \in Gens :
                   (gen[g].kind # "none" /\ gen[g].pc = "start"
                       /\ gen'[g].pc # "start") =>
                       gen'[g].pagesOut[1] = response
            /\ Len(calls') > Len(calls) =>
                   calls'[Len(calls) + 1].request.page_token =
                       calls[Len(calls)].request.page_token]_vars

\* the first iteration's fetch of the second page raised; a second page
\* sequence yielded the first page again and sent the same token
C14_Witness ==
    /\ Len(calls) = 2
    /\ ~Succeeded(calls[1]) /\ calls[1].by = 1
    /\ gen[1].pc = "raised"
    /\ gen[2].kind = "pages"
    /\ gen[2].pagesOut[1] = given.response
    /\ calls[2].by = 2
    /\ calls[2].request.page_token = calls[1].request.page_token
    /\ calls[2].request.page_token # EmptyToken

\* the tokens of the chain's pages that name a further page
TokensOf(ch) ==
    {ch[k].next_page_token : k \in 1..Len(ch)} \ {EmptyToken}

\* every invocation of this step carries the token of the response held
\* when it is made
UsesHeldToken ==
    \A i \in (Len(calls) + 1)..Len(calls') :
        calls'[i].request.page_token =
            IF i = Len(calls) + 1 THEN response.next_page_token
            ELSE calls'[i - 1].outcome.response.next_page_token

\* a page that both sequences were given is the page one of them started at
SharedOnlyAtStart ==
    \A g, h \in Gens :
        g # h =>
            \A i \in 2..Len(gen[g].pagesOut) :
                \A j \in 2..Len(gen[h].pagesOut) :
                    gen[g].pagesOut[i] # gen[h].pagesOut[j]

\* C15 as stated: with two page sequences of one pager pulled in any
\* interleaving, every invocation uses the token of the response then held,
\* no token of the chain is sent more than once, the invocations number at
\* most the chain's pages minus one, and a page past the one a sequence
\* started at is given to one sequence only.
C15_TokensSentOnce ==
    /\ [](/\ \A i, j \in 1..Len(calls) :
                 i # j => calls[i].request.page_token #
                              calls[j].request.page_token
          /\ Len(calls) <= Cardinality(TokensOf(Chain))
          /\ SharedOnlyAtStart)
    /\ [][UsesHeldToken]_vars

\* C15 as amended: the same, for the invocations that returned a response;
\* a token is sent again only when every invocation that carried it before
\* raised (the sequence that made it has ended, and the next pull of the
\* other sequence sends the token once more).
C15_TokensAnsweredOnce ==
    /\ [](/\ \A i, j \in 1..Len(calls) :
                 (i < j /\ calls[i].request.page_token =
                               calls[j].request.page_token) =>
                     /\ \A k \in i..(j - 1) : ~Succeeded(calls[k])
                     /\ calls[i].by # calls[j].by
          /\ Len(Received) <= Cardinality(TokensOf(Chain))
          /\ SharedOnlyAtStart)
    /\ [][UsesHeldToken]_vars

\* both sequences started at the first page; the second fetched the second
\* page, then the first fetched the third
C15_Witness ==
    /\ Len(Chain) = 3 /\ Len(calls) = 2
    /\ calls[1].by = 2 /\ calls[2].by = 1
    /\ gen[1].pagesOut = <<Chain[1], Chain[3]>>
    /\ gen[2].pagesOut = <<Chain[1], Chain[2]>>
    /\ calls[1].request.page_token # calls[2].request.page_token

====
